---- MODULE Spec2Model ----
(***************************************************************************)
(* Model of find_multiview_track.cpp: the ray-extent search                *)
(* (findExtentOfRay) and the multiview track builder (findMultiviewTrack,  *)
(* findMultiviewTracks).                                                   *)
(*                                                                         *)
(* The world is reduced by one dimension: world points are (x, z), image   *)
(* points are scalars, a rotation is a 2x2 matrix whose second row plays   *)
(* the role of R_z, and a projection matrix is 2x3.  Doubles are modelled  *)
(* as fixed-point numbers together with the IEEE special values: a value   *)
(* is <<"fin", n>>, <<"inf", 1>>, <<"inf", -1>> or <<"nan", 0>>.  A lambda *)
(* <<"fin", n>> stands for n / Scale, a pixel <<"fin", n>> for n / PixUnit.*)
(***************************************************************************)
EXTENDS Integers, Sequences, FiniteSets, TLC

\* ---- bounds of the model ------------------------------------------------
Scale == 2          \* lambda grid: 1 / Scale
PixUnit == 4        \* pixel grid: 1 / PixUnit
ImageRadius == 2    \* radius (pixels) of the distorted image disc
MaxCoord == 4       \* camera centres lie in (-MaxCoord..MaxCoord)^2
MaxW == 2           \* calibrated track points lie in -MaxW..MaxW
MaxLambda == 64     \* the doubling pre-search is followed up to this lambda
MaxTracks == 2      \* tracks in the builder scenes
MaxPoints == 2      \* points per track in the builder scenes
MaxOthers == 2      \* other views in the builder scenes

\* ---- program constants ----------------------------------------------------
delta == 1          \* find_multiview_track.cpp:146
TolBits == 16       \* find_multiview_track.cpp:212
LambdaStart == 1    \* find_multiview_track.cpp:171

\* ---- IEEE-style values -----------------------------------------------------
Fin(n) == <<"fin", n>>
PosInf == <<"inf", 1>>
NegInf == <<"inf", -1>>
NaN == <<"nan", 0>>

IsFin(a) == a[1] = "fin"
IsNaN(a) == a[1] = "nan"
IsInf(a) == a[1] = "inf"

Abs(n) == IF n < 0 THEN -n ELSE n
Sgn(n) == IF n > 0 THEN 1 ELSE IF n < 0 THEN -1 ELSE 0
Min(a, b) == IF a < b THEN a ELSE b

\* Integer quotient rounded toward zero, for any non-zero divisor.
Quot(n, d) == Sgn(n) * Sgn(d) * (Abs(n) \div Abs(d))

\* a < b, a >= b, a == b, a != b on doubles: every comparison with NaN is
\* false except !=.
FLt(a, b) ==
  IF IsNaN(a) \/ IsNaN(b) THEN FALSE
  ELSE IF IsInf(a) THEN a[2] < 0 /\ ~(IsInf(b) /\ b[2] < 0)
  ELSE IF IsInf(b) THEN b[2] > 0
  ELSE a[2] < b[2]
FEq(a, b) == ~IsNaN(a) /\ ~IsNaN(b) /\ a = b
FGe(a, b) == ~IsNaN(a) /\ ~IsNaN(b) /\ ~FLt(a, b)
FNe(a, b) == ~FEq(a, b)

\* n / d on doubles for integers n and d, as a lambda (fixed point).
FDiv(n, d) ==
  IF d = 0 THEN (IF n = 0 THEN NaN ELSE IF n > 0 THEN PosInf ELSE NegInf)
  ELSE Fin(Quot(n * Scale, d))

\* a + l * b on doubles for integers a, b and a lambda l, times Scale.
FAxpy(a, l, b) ==
  IF IsFin(l) THEN Fin(a * Scale + l[2] * b)
  ELSE IF IsNaN(l) \/ b = 0 THEN NaN
  ELSE IF l[2] * b > 0 THEN PosInf ELSE NegInf

FHalfSum(a, b) ==
  \* (a + b) / 2 on doubles, on the lambda grid
  IF IsNaN(a) \/ IsNaN(b) THEN NaN
  ELSE IF IsInf(a) /\ IsInf(b) THEN (IF a[2] = b[2] THEN a ELSE NaN)
  ELSE IF IsInf(a) THEN a
  ELSE IF IsInf(b) THEN b
  ELSE Fin((a[2] + b[2]) \div 2)

\* 2 * a on doubles.
FDouble(a) == IF IsFin(a) THEN Fin(2 * a[2]) ELSE a

RECURSIVE Pow2(_)
Pow2(n) == IF n = 0 THEN 1 ELSE 2 * Pow2(n - 1)

\* ---- state -------------------------------------------------------------------
VARIABLES
  lens,              \* behaviour of the lens functions on non-finite input
  pose,              \* CameraPose of the reference view
  other_views,       \* std::vector<OtherView>
  tracks,            \* TrackList: each track a sequence of calibrated points
  pc,                \* position in the program
  multiview_tracks,  \* MultiviewTrackList being returned
  multiview_track,   \* MultiviewTrack being built
  ti,                \* iterator `track` of findMultiviewTracks
  pi,                \* iterator `point` of findMultiviewTrack
  k,                 \* iterator `other` of findExtentOfRay
  A, B,              \* P * C and P * V for the current other camera
  lambda_min, lambda, x, found, lambdas,
  built_from,        \* history: input track each returned entry was built from
  computed           \* history: the lambdas of every completed search

\* main() of find_multiview_track.cpp
VARIABLES
  main_view,           \* argv[1] after lexical_cast<int>
  input_tracks,        \* TrackList loaded from argv[2]
  num_views,           \* view_names.size()
  view,                \* loop variable of the camera loop
  camera,              \* Camera of the main view
  undistorted_tracks,  \* TrackList after calibrateAndUndistortTrack
  multiview_tracks_file, \* what argv[8] holds
  undistort_calls,     \* history: the points undistort was called on
  build_calls,         \* history: calls of findMultiviewTracks
  succeeded            \* history: the loads and checks that succeeded

Caller == <<main_view, input_tracks, num_views, view, camera,
            undistorted_tracks, multiview_tracks_file, undistort_calls,
            build_calls, succeeded>>

\* main() of match_features.cpp
VARIABLES
  descriptors1, descriptors2,  \* the two descriptor lists
  forward_match_lists,         \* knnMatch of list 1 against list 2
  reverse_match_lists,         \* knnMatch of list 2 against list 1
  forward_matches, reverse_matches,
  matches,                     \* the consistent matches
  matches_file                 \* what argv[3] holds

Matcher == <<descriptors1, descriptors2, forward_match_lists,
             reverse_match_lists, forward_matches, reverse_matches, matches,
             matches_file>>

vars == <<lens, pose, other_views, tracks, pc, multiview_tracks,
          multiview_track, ti, pi, k, A, B, lambda_min, lambda, x, found,
          lambdas, built_from, computed, Caller, Matcher>>

\* ---- camera and distortion model ----------------------------------------------
\* The four axis-aligned rotations; row 1 is R_x, row 2 is R_z.
Rotations ==
  { <<<<1, 0>>, <<0, 1>>>>, <<<<0, -1>>, <<1, 0>>>>,
    <<<<-1, 0>>, <<0, -1>>>>, <<<<0, 1>>, <<-1, 0>>>> }

Dot(u, v) == u[1] * v[1] + u[2] * v[2]
MatVec(R, v) == <<Dot(R[1], v), Dot(R[2], v)>>

\* Image points are NaN, an infinity, or a ratio <<"rat", n, d>> with d > 0.
Rat(n, d) == <<"rat", n, d>>

\* X / X_3 for a homogeneous X = <<X_1, X_3>> of doubles.
imagePointFromHomogeneous(X) ==
  LET n == X[1]
      d == X[2]
  IN IF IsNaN(n) \/ IsNaN(d) THEN NaN
     ELSE IF IsInf(n) /\ IsInf(d) THEN NaN
     ELSE IF IsInf(d) THEN Rat(0, 1)
     ELSE IF IsInf(n) THEN (IF n[2] * (IF d[2] < 0 THEN -1 ELSE 1) > 0
                            THEN PosInf ELSE NegInf)
     ELSE IF d[2] = 0 THEN (IF n[2] = 0 THEN NaN
                            ELSE IF n[2] > 0 THEN PosInf ELSE NegInf)
     ELSE Rat(Sgn(d[2]) * n[2], Abs(d[2]))

\* Division-model radial distortion r / (1 + |r|): the distorted image is the
\* open disc of radius 1. What an infinite point maps to is lens.pole.
distort(p) ==
  IF IsNaN(p) THEN NaN
  ELSE IF IsInf(p) THEN (IF lens.pole = "nan" THEN NaN ELSE Rat(p[2], 1))
  ELSE Rat(p[2], p[3] + Abs(p[2]))

\* The finite position of a direction d; lens.infsign is the side it lies on.
distortPointAtInfinity(d) ==
  IF IsFin(d) /\ d[2] # 0 THEN Rat(lens.infsign * Sgn(d[2]), 1) ELSE NaN

\* Distorted calibrated coordinate to pixels.
uncalibrate(q) ==
  IF IsNaN(q) THEN NaN ELSE Fin(Quot(ImageRadius * PixUnit * q[2], q[3]))

distortAndUncalibrate(p) == uncalibrate(distort(p))

\* A + lambda * B
RayPoint(l, a, b) == <<FAxpy(a[1], l, b[1]), FAxpy(a[2], l, b[2])>>

errorInDistanceFromPoint(y, l, a, b) ==
  LET X == RayPoint(l, a, b)
      p == distortAndUncalibrate(imagePointFromHomogeneous(X))
  IN IF IsFin(p) /\ IsFin(y) THEN Fin(Abs(p[2] - y[2]) - delta * PixUnit)
     ELSE NaN

\* ---- boost::math::tools::bisect ------------------------------------------------
\* eps_tolerance<double>(TolBits): |a - b| <= 2^(1 - TolBits) * min(|a|, |b|)
eps_tolerance(a, b) ==
  /\ IsFin(a) /\ IsFin(b)
  /\ Abs(a[2] - b[2]) * Pow2(TolBits - 1) <= Min(Abs(a[2]), Abs(b[2]))

\* boost::math::sign: 0 for zero, else by the sign bit; lens.nansign is the
\* sign bit of the NaNs the platform produces.
FSign(f) == IF IsNaN(f) THEN lens.nansign ELSE Sgn(f[2])

\* The pair with its ends exchanged.
BisectResult_Swapped(lo, hi) == [kind |-> "ok", first |-> hi, second |-> lo]

BisectResult(lo, hi) == [kind |-> "ok", first |-> lo, second |-> hi]
BisectError == [kind |-> "error", first |-> NaN, second |-> NaN]
BisectSpin == [kind |-> "spin", first |-> NaN, second |-> NaN]

RECURSIVE BisectLoop(_, _, _, _, _, _)
BisectLoop(y, a, b, lo, hi, flo) ==
  IF eps_tolerance(lo, hi) THEN BisectResult(lo, hi)
  ELSE LET mid == FHalfSum(lo, hi)
           fmid == errorInDistanceFromPoint(y, mid, a, b)
       IN IF IsNaN(mid) THEN BisectSpin
          ELSE IF FEq(mid, hi) \/ FEq(mid, lo) THEN BisectResult(lo, hi)
          ELSE IF FEq(fmid, Fin(0)) THEN BisectResult(mid, mid)
          ELSE IF FSign(fmid) * FSign(flo) < 0
               THEN BisectLoop(y, a, b, lo, mid, flo)
               ELSE BisectLoop(y, a, b, mid, hi, fmid)

\* bisect(f, min, max, tol) for f = errorInDistanceFromPoint(y, _, a, b).
\* "error" is the evaluation_error it throws, "spin" a loop that only the
\* iteration budget of 2^64 - 1 ends.
bisect(y, a, b, lo, hi) ==
  LET flo == errorInDistanceFromPoint(y, lo, a, b)
      fhi == errorInDistanceFromPoint(y, hi, a, b)
  IN IF FEq(flo, Fin(0)) THEN BisectResult(lo, lo)
     ELSE IF FEq(fhi, Fin(0)) THEN BisectResult(hi, hi)
     ELSE IF FGe(lo, hi) THEN BisectError
     ELSE IF IsFin(flo) /\ IsFin(fhi) /\ flo[2] * fhi[2] >= 0 THEN BisectError
     ELSE BisectLoop(y, a, b, lo, hi, flo)

\* ---- the ray and its projection (findExtentOfRay, lines 105-138) ------------------
\* Null space of R_x - w R_z, negated so that z < 0 is in front of the camera.
RayDirection(w, R) ==
  LET n == <<R[1][1] - w * R[2][1], R[1][2] - w * R[2][2]>>
  IN <<n[2], -n[1]>>

\* CameraPose::matrix(): P = [R | -R c]; P * (X, h) for a world point X with
\* homogeneous weight h.
Project(cam, X, h) ==
  MatVec(cam.rotation, <<X[1] - h * cam.center[1], X[2] - h * cam.center[2]>>)

ProjectedCenter(cam) == Project(cam, pose.center, 1)
ProjectedDirection(cam, w) == Project(cam, RayDirection(w, pose.rotation), 0)

\* ---- findExtentOfRay, per other camera (lines 140-191) ---------------------------
\* Lines 152-160.
LambdaMin(a3, b3) == IF a3 < 0 THEN Fin(0) ELSE FDiv(-a3, b3)

\* Lines 166-167: the distorted vanishing point, from B alone.
VanishingPoint(b) ==
  distortAndUncalibrate(imagePointFromHomogeneous(<<Fin(b[1]), Fin(b[2])>>))

\* Lines 187-190: the direction A + lambda B, distorted at infinity.
InfinityAnchor(a, b, l) ==
  uncalibrate(distortPointAtInfinity(RayPoint(l, a, b)[1]))

\* Lines 222-224: the pixel of the ray point at lambda.
PixelAt(l, a, b) ==
  distortAndUncalibrate(imagePointFromHomogeneous(RayPoint(l, a, b)))

\* ---- calibrateAndUndistortTrack (lines 31-77) ----------------------------------
\* A Track is a std::map from frame index to point: here the sequence of its
\* <<frame, point>> pairs in increasing frame order. A raw point is a pixel
\* on the pixel grid, <<"fin", n>>.

\* The distorted radius at which the division model stops being invertible.
DomainBound == 1

\* isUndistortable(point, w): the distorted radius is inside the domain.
isUndistortable(q, w) ==
  /\ ~IsNaN(q) /\ ~IsInf(q)
  /\ Abs(q[2]) < DomainBound * q[3]

\* undistort(point, w): the inverse r / (1 - |r|) of distort; undefined
\* outside the domain.
undistort(q, w) ==
  IF isUndistortable(q, w) THEN Rat(q[2], q[3] - Abs(q[2])) ELSE NaN

\* CameraProperties::matrix().inv() applied to the homogeneous pixel (x, 1),
\* up to the common factor of a homogeneous vector.
K_inv(X) == <<X[1], Fin(ImageRadius * X[2][2])>>

imagePointToHomogeneous(p) == <<p, Fin(PixUnit)>>

\* Lines 31-39.
calibrateIndexedPoint(point) ==
  <<point[1], imagePointFromHomogeneous(K_inv(imagePointToHomogeneous(point[2])))>>

\* Lines 41-44 without the negation.
indexedPointIsUndistortable(point, w) == isUndistortable(point[2], w)

\* Lines 41-44.
indexedPointIsNotUndistortable(point, w) == ~isUndistortable(point[2], w)

\* Lines 46-50 with the frame index moved by one.
undistortIndexedPoint_Renumbered(point, w) ==
  <<point[1] + 1, undistort(point[2], w)>>

\* Lines 46-50.
undistortIndexedPoint(point, w) == <<point[1], undistort(point[2], w)>>

\* std::map::insert through std::inserter: a key that is present is kept.
RECURSIVE MapInsert(_, _)
MapInsert(track, point) ==
  IF track = <<>> THEN <<point>>
  ELSE IF Head(track)[1] = point[1] THEN track
  ELSE IF Head(track)[1] > point[1] THEN <<point>> \o track
  ELSE <<Head(track)>> \o MapInsert(Tail(track), point)

\* Lines 58-60: std::transform with calibrateIndexedPoint.
RECURSIVE Calibrated(_, _)
Calibrated(track, out) ==
  IF track = <<>> THEN out
  ELSE Calibrated(Tail(track), MapInsert(out, calibrateIndexedPoint(Head(track))))

\* Lines 64-66: std::remove_copy_if with indexedPointIsNotUndistortable.
RECURSIVE Valid(_, _, _)
Valid(calibrated, w, out) ==
  IF calibrated = <<>> THEN out
  ELSE Valid(Tail(calibrated), w,
             IF indexedPointIsNotUndistortable(Head(calibrated), w) THEN out
             ELSE MapInsert(out, Head(calibrated)))

\* Lines 72-74: std::transform with undistortIndexedPoint; calls collects the
\* points undistort is called on.
RECURSIVE Undistorted(_, _, _)
Undistorted(valid, w, acc) ==
  IF valid = <<>> THEN acc
  ELSE Undistorted(Tail(valid), w,
         [track |-> MapInsert(acc.track, undistortIndexedPoint(Head(valid), w)),
          calls |-> acc.calls \cup {Head(valid)[2]}])

\* Lines 52-77.
calibrateAndUndistortTrack(track, w) ==
  Undistorted(Valid(Calibrated(track, <<>>), w, <<>>), w,
              [track |-> <<>>, calls |-> {}])

\* ---- containers ----------------------------------------------------------------
\* MultiviewTrack<T>(num_views): one empty track per view.
MultiviewTrack(views) == [v \in 1..views |-> <<>>]

\* MultiviewTrackList<T>(num_views): an empty list of such tracks.
MultiviewTrackList(views) == <<>>

\* Lines 238-239 without the reference view.
NumViews_OthersOnly(others) == Len(others)

\* Lines 238-239 and 259.
NumViews(others) == Len(others) + 1

extractCameraFromOtherView(other_view) == other_view.camera

\* ---- inputs -------------------------------------------------------------------
Lenses == [pole : {"nan", "edge"}, infsign : {1, -1}, nansign : {1, -1}]
Coords == (-MaxCoord)..MaxCoord
Cameras == [rotation : Rotations, center : Coords \X Coords]
Points == (-MaxW)..MaxW
Identity == <<<<1, 0>>, <<0, 1>>>>
Origin == [rotation |-> Identity, center |-> <<0, 0>>]

\* The views in file order without main_view, as main() collects them
\* (lines 344-369).
RECURSIVE OtherViews(_, _, _)
OtherViews(cams, main, index) ==
  IF cams = <<>> THEN <<>>
  ELSE IF index = main THEN OtherViews(cams, main, index + 1)
  ELSE <<[index |-> index, camera |-> Head(cams)]>>
       \o OtherViews(Tail(cams), main, index + 1)

SeqsUpTo(S, n) == UNION { [1..m -> S] : m \in 0..n }

\* One track of one point seen by one other camera, in any relative pose.
RayScene ==
  /\ lens \in Lenses
  /\ pose = Origin
  /\ \E cam \in Cameras : other_views = OtherViews(<<cam>>, 0, 0)
  /\ \E w \in Points : tracks = << <<w>> >>

\* Cameras in front of, behind and beside the reference camera.
SceneCameras ==
  { [rotation |-> Identity, center |-> <<1, 1>>],
    [rotation |-> <<<<-1, 0>>, <<0, -1>>>>, center |-> <<0, 1>>],
    [rotation |-> <<<<0, -1>>, <<1, 0>>>>, center |-> <<1, 0>>] }
ScenePoints == {0, 1}
ScenePoses == { Origin, [rotation |-> <<<<0, 1>>, <<-1, 0>>>>, center |-> <<0, -1>>] }

\* Several tracks and several other cameras.
BuilderScene ==
  /\ lens = [pole |-> "edge", infsign |-> -1, nansign |-> -1]
  /\ pose \in ScenePoses
  /\ \E cams \in SeqsUpTo(SceneCameras, MaxOthers) :
       \E main \in {0, Len(cams)} :
         other_views = OtherViews(cams, main, 0)
  /\ tracks \in SeqsUpTo(SeqsUpTo(ScenePoints, MaxPoints), MaxTracks)

NoValue == NaN

\* A default-constructed Camera, and an output file that was not written.
NoCamera == [rotation |-> <<>>, center |-> <<>>]
NoFile == [written |-> FALSE, content |-> <<>>]

\* The locals of main() before main() has run.
CallerIdle ==
  /\ main_view = 0
  /\ input_tracks = <<>>
  /\ num_views = 0
  /\ view = 0
  /\ camera = NoCamera
  /\ undistorted_tracks = <<>>
  /\ multiview_tracks_file = NoFile
  /\ undistort_calls = <<>>
  /\ build_calls = 0
  /\ succeeded = {}

\* The locals of match_features' main() before it has run.
MatcherIdle ==
  /\ descriptors1 = <<>> /\ descriptors2 = <<>>
  /\ forward_match_lists = <<>> /\ reverse_match_lists = <<>>
  /\ forward_matches = <<>> /\ reverse_matches = <<>>
  /\ matches = <<>>
  /\ matches_file = NoFile

\* The locals of findMultiviewTracks and its callees before the call.
BuilderIdle ==
  /\ multiview_tracks = <<>>
  /\ multiview_track = <<>>
  /\ ti = 0 /\ pi = 0 /\ k = 0
  /\ A = <<0, 0>> /\ B = <<0, 0>>
  /\ lambda_min = NoValue /\ lambda = NoValue /\ x = NoValue
  /\ found = FALSE
  /\ lambdas = <<>>
  /\ built_from = <<>>
  /\ computed = <<>>

\* findMultiviewTracks is called on a scene.
Init ==
  /\ RayScene \/ BuilderScene
  /\ pc = "start"
  /\ BuilderIdle
  /\ CallerIdle
  /\ MatcherIdle

\* ---- findMultiviewTracks (lines 254-272) ------------------------------------------
Locals == <<A, B, lambda_min, lambda, x, found, lambdas>>
Inputs == <<lens, pose, other_views, tracks, Caller, Matcher>>
History == <<built_from, computed>>

ResetLocals ==
  /\ A' = <<0, 0>> /\ B' = <<0, 0>>
  /\ lambda_min' = NoValue /\ lambda' = NoValue /\ x' = NoValue
  /\ found' = FALSE
  /\ lambdas' = <<>>

\* Lines 259-262: the output list is reset and the loop over tracks starts.
EnterFindMultiviewTracks ==
  /\ pc = "start"
  /\ multiview_tracks' = MultiviewTrackList(NumViews(other_views))
  /\ ti' = 1
  /\ pc' = "tracks"
  /\ UNCHANGED <<Inputs, multiview_track, pi, k, Locals, History>>

\* Lines 263-266 and 238-248: findMultiviewTrack is entered for the next track.
NextTrack ==
  /\ pc = "tracks" /\ ti <= Len(tracks)
  /\ multiview_track' = MultiviewTrack(NumViews(other_views))
  /\ pi' = 1
  /\ pc' = "points"
  /\ UNCHANGED <<Inputs, multiview_tracks, ti, k, Locals, History>>

\* Line 263: no track is left; findMultiviewTracks returns.
TracksDone ==
  /\ pc = "tracks" /\ ti > Len(tracks)
  /\ pc' = "done"
  /\ UNCHANGED <<Inputs, multiview_tracks, multiview_track, ti, pi, k,
                 Locals, History>>

\* Lines 269-270 inserting at the front.
PushFront(list, entry) == <<entry>> \o list

\* Line 269-270: push_back of an empty entry, then swap with the built one.
PushBack(list, entry) == Append(list, entry)

\* Lines 249 and 268-270: findMultiviewTrack returns, the track is appended.
PointsDone ==
  /\ pc = "points" /\ pi > Len(tracks[ti])
  /\ multiview_tracks' = PushBack(multiview_tracks, multiview_track)
  /\ built_from' = PushBack(built_from, ti)
  /\ multiview_track' = <<>>
  /\ ti' = ti + 1
  /\ pi' = 0
  /\ pc' = "tracks"
  /\ UNCHANGED <<Inputs, k, Locals, computed>>

\* Lines 249-250 and 105-123: findExtentOfRay is entered for the next point.
NextPoint ==
  /\ pc = "points" /\ pi <= Len(tracks[ti])
  /\ k' = 1
  /\ pc' = "others"
  /\ ResetLocals
  /\ UNCHANGED <<Inputs, multiview_tracks, multiview_track, ti, pi, History>>

\* Line 123: no other camera is left; findExtentOfRay returns.
OthersDone ==
  /\ pc = "others" /\ k > Len(other_views)
  /\ pi' = pi + 1
  /\ k' = 0
  /\ pc' = "points"
  /\ UNCHANGED <<Inputs, multiview_tracks, multiview_track, ti, Locals,
                 History>>

\* ---- findExtentOfRay: one other camera ------------------------------------------
CurA == ProjectedCenter(extractCameraFromOtherView(other_views[k]))
CurB == ProjectedDirection(extractCameraFromOtherView(other_views[k]),
                           tracks[ti][pi])

\* Line 140 with the sign of a3 slipped.
EntireRayBehind_SignSlip(a3, b3) == a3 < 0 /\ b3 > 0

\* Line 140.
EntireRayBehind(a3, b3) == a3 > 0 /\ b3 > 0

\* Line 162 with <= for <.
HasVanishingPoint_OrZero(b3) == b3 <= 0

\* Line 162.
HasVanishingPoint(b3) == b3 < 0

Builder == <<multiview_tracks, multiview_track, ti, pi>>

\* Lines 124-144: the entire ray is behind the camera; continue.
SkipView ==
  /\ pc = "others" /\ k <= Len(other_views)
  /\ EntireRayBehind(CurA[2], CurB[2])
  /\ A' = CurA /\ B' = CurB
  /\ k' = k + 1
  /\ lambda_min' = NoValue /\ lambda' = NoValue /\ x' = NoValue
  /\ found' = FALSE
  /\ lambdas' = <<>>
  /\ UNCHANGED <<Inputs, Builder, pc, History>>

\* Lines 124-172 with b3 < 0: anchor at the vanishing point, lambda = 1.
StartVanishing ==
  /\ pc = "others" /\ k <= Len(other_views)
  /\ ~EntireRayBehind(CurA[2], CurB[2])
  /\ HasVanishingPoint(CurB[2])
  /\ A' = CurA /\ B' = CurB
  /\ lambda_min' = LambdaMin(CurA[2], CurB[2])
  /\ x' = VanishingPoint(CurB)
  /\ lambda' = Fin(LambdaStart * Scale)
  /\ found' = FALSE
  /\ lambdas' = <<>>
  /\ pc' = "doubling"
  /\ UNCHANGED <<Inputs, Builder, k, History>>

\* Lines 124-160 and 181-194 with b3 >= 0: anchor at the distorted point at
\* infinity of the crossing lambda = -a3 / b3.
StartCrossing ==
  /\ pc = "others" /\ k <= Len(other_views)
  /\ ~EntireRayBehind(CurA[2], CurB[2])
  /\ ~HasVanishingPoint(CurB[2])
  /\ A' = CurA /\ B' = CurB
  /\ lambda_min' = LambdaMin(CurA[2], CurB[2])
  /\ lambda' = FDiv(-CurA[2], CurB[2])
  /\ x' = InfinityAnchor(CurA, CurB, lambda')
  /\ found' = FALSE
  /\ lambdas' = <<>>
  /\ pc' = "quantize"
  /\ UNCHANGED <<Inputs, Builder, k, History>>

\* Lines 173-180: one iteration of the doubling pre-search; the loop is left
\* (lines 193-194) once an iteration has found a negative residual.
DoublingStep ==
  /\ pc = "doubling" /\ ~found
  /\ IsFin(lambda) /\ lambda[2] <= MaxLambda * Scale
  /\ found' = FLt(errorInDistanceFromPoint(x, lambda, A, B), Fin(0))
  /\ lambda' = FDouble(lambda)
  /\ pc' = IF found' THEN "quantize" ELSE "doubling"
  /\ UNCHANGED <<Inputs, Builder, k, A, B, lambda_min, x, lambdas, History>>

\* Lines 196-203: no point of the ray is delta pixels from the anchor.
QuantizeConverged ==
  /\ pc = "quantize"
  /\ FLt(errorInDistanceFromPoint(x, lambda_min, A, B), Fin(0))
  /\ pc' = "logged"
  /\ UNCHANGED <<Inputs, Builder, k, Locals, History>>

\* Line 230 and the end of the loop body: the count is logged, the lambdas go
\* out of scope.
NextOther ==
  /\ pc = "logged"
  /\ computed' = Append(computed, [track |-> ti, point |-> pi,
                                   view |-> other_views[k].index,
                                   lambdas |-> lambdas])
  /\ k' = k + 1
  /\ pc' = "others"
  /\ lambda_min' = NoValue /\ lambda' = NoValue /\ x' = NoValue
  /\ found' = FALSE
  /\ lambdas' = <<>>
  /\ UNCHANGED <<Inputs, Builder, A, B, built_from>>

Bisection == bisect(x, A, B, lambda_min, lambda)
NeedsBisection ==
  /\ pc = "quantize"
  /\ ~FLt(errorInDistanceFromPoint(x, lambda_min, A, B), Fin(0))

\* Line 216 without the guard.
LimitCycle_Never(new_lambda, old_lambda) == FALSE

\* Line 216: CHECK(lambda != old_lambda)
LimitCycle(new_lambda, old_lambda) == ~FNe(new_lambda, old_lambda)

\* Line 219 inserting at the front.
lambdas_push_front(list, l) == <<l>> \o list

\* Line 219: lambdas.push_back(lambda)
lambdas_push_back(list, l) == Append(list, l)

\* Lines 205-226: a new lambda is found, appended, and becomes the anchor.
QuantizeStep ==
  /\ NeedsBisection
  /\ Bisection.kind = "ok"
  /\ ~LimitCycle(Bisection.second, lambda)
  /\ lambda' = Bisection.second
  /\ lambdas' = lambdas_push_back(lambdas, lambda')
  /\ x' = PixelAt(lambda', A, B)
  /\ UNCHANGED <<Inputs, Builder, k, A, B, lambda_min, found, pc, History>>

\* Lines 205-216: the CHECK fails, the process aborts.
QuantizeLimitCycle ==
  /\ NeedsBisection
  /\ Bisection.kind = "ok"
  /\ LimitCycle(Bisection.second, lambda)
  /\ lambda' = Bisection.second
  /\ pc' = "fatal"
  /\ UNCHANGED <<Inputs, Builder, k, A, B, lambda_min, x, found, lambdas,
                 History>>

\* Lines 208-212: bisect throws evaluation_error, which nothing catches.
QuantizeBisectThrows ==
  /\ NeedsBisection
  /\ Bisection.kind = "error"
  /\ pc' = "terminated"
  /\ UNCHANGED <<Inputs, Builder, k, Locals, History>>

\* Lines 208-212: bisect does not return.
QuantizeBisectSpins ==
  /\ NeedsBisection
  /\ Bisection.kind = "spin"
  /\ pc' = "hung"
  /\ UNCHANGED <<Inputs, Builder, k, Locals, History>>

Next ==
  \/ EnterFindMultiviewTracks
  \/ NextTrack
  \/ TracksDone
  \/ PointsDone
  \/ NextPoint
  \/ OthersDone
  \/ SkipView
  \/ StartVanishing
  \/ StartCrossing
  \/ DoublingStep
  \/ QuantizeConverged
  \/ NextOther
  \/ QuantizeStep
  \/ QuantizeLimitCycle
  \/ QuantizeBisectThrows
  \/ QuantizeBisectSpins

Spec == Init /\ [][Next]_vars

\* ---- main (lines 307-389) -------------------------------------------------------
MaxViews == 3         \* lines of the views file
MaxFrames == 2        \* frames of a track in the track file
MaxInputTracks == 1   \* tracks in the track file

\* All views share their intrinsics: focal length ImageRadius, principal
\* point 0, and one distortion parameter.
Intrinsics == [distort_w |-> 1]

\* The pixels of the track file: every pixel of the grid up to one grid step
\* beyond the domain bound.
MaxPixel == DomainBound * ImageRadius * PixUnit + 1
Pixels == { Fin(n) : n \in (-MaxPixel)..MaxPixel }

\* The tracks over the frames 0 .. MaxFrames - 1 with points in a set S.
RECURSIVE TracksOver(_, _)
TracksOver(frame, S) ==
  IF frame >= MaxFrames THEN { <<>> }
  ELSE LET rest == TracksOver(frame + 1, S)
       IN rest \cup { <<<<frame, p>>>> \o t : p \in S, t \in rest }

\* The calibrated coordinate findExtentOfRay reads from an undistorted
\* point (point->second, line 250).
CalibratedCoordinate(q) == Quot(q[2], q[3])

\* The pixels of the track file of main(): pixels at or left of the principal
\* point whose undistortion lies on the grid of calibrated coordinates.
BuilderPixels ==
  { p \in Pixels :
      LET q == calibrateIndexedPoint(<<0, p>>)[2]
          u == undistort(q, Intrinsics.distort_w)
      IN /\ p[2] <= 0
         /\ isUndistortable(q, Intrinsics.distort_w)
         /\ u[2] = u[3] * CalibratedCoordinate(u)
         /\ CalibratedCoordinate(u) \in Points }

\* The extrinsics files, by view name (the line number in the views file).
ViewPoses ==
  << Origin,
     [rotation |-> <<<<0, -1>>, <<1, 0>>>>, center |-> <<-1, 0>>],
     [rotation |-> <<<<0, -1>>, <<1, 0>>>>, center |-> <<-3, -4>>],
     [rotation |-> <<<<-1, 0>>, <<0, -1>>>>, center |-> <<0, 1>>] >>
ViewPose(name) == ViewPoses[(name % Len(ViewPoses)) + 1]

MainInit ==
  /\ lens \in Lenses
  /\ pose = NoCamera /\ other_views = <<>> /\ tracks = <<>>
  /\ pc = "main"
  /\ BuilderIdle
  /\ CallerIdle
  /\ MatcherIdle

MainLocals == <<input_tracks, num_views, view, camera, undistorted_tracks>>

\* A load or check of main() that succeeded; the camera steps carry the view.
Step(name) == [step |-> name, view |-> -1]
CameraStep(index) == [step |-> "camera", view |-> index]
Callee == <<Builder, k, Locals, History, pose, tracks>>

\* Lines 310-318: the arguments are parsed.
ParseArguments ==
  /\ pc = "main"
  /\ \E index \in (-1)..MaxViews : main_view' = index
  /\ pc' = "load_tracks"
  /\ UNCHANGED <<Matcher, lens, other_views, Callee, MainLocals,
                 multiview_tracks_file, undistort_calls, build_calls,
                 succeeded>>

\* Lines 301-304, 311 and 317: wrong argument count, or not an integer.
RejectArguments ==
  /\ pc = "main"
  /\ pc' = "aborted"
  /\ UNCHANGED <<Matcher, lens, other_views, Callee, Caller>>

\* Lines 321-325: the track file is loaded.
LoadTracks ==
  /\ pc = "load_tracks"
  /\ \E file \in SeqsUpTo(TracksOver(0, BuilderPixels), MaxInputTracks) :
       input_tracks' = file
  /\ succeeded' = succeeded \cup {Step("tracks")}
  /\ pc' = "load_views"
  /\ UNCHANGED <<Matcher, lens, other_views, Callee, main_view, num_views, view,
                 camera, undistorted_tracks, multiview_tracks_file,
                 undistort_calls, build_calls>>

\* Line 324: CHECK(ok) << "Could not load tracks"
LoadTracksFails ==
  /\ pc = "load_tracks"
  /\ pc' = "aborted"
  /\ UNCHANGED <<Matcher, lens, other_views, Callee, Caller>>

\* Lines 328-332: the view names are read.
LoadViewNames ==
  /\ pc = "load_views"
  /\ \E n \in 0..MaxViews : num_views' = n
  /\ succeeded' = succeeded \cup {Step("view names")}
  /\ pc' = "check"
  /\ UNCHANGED <<Matcher, lens, other_views, Callee, main_view, input_tracks, view,
                 camera, undistorted_tracks, multiview_tracks_file,
                 undistort_calls, build_calls>>

\* Line 330: CHECK(ok) << "Could not load view names"
LoadViewNamesFails ==
  /\ pc = "load_views"
  /\ pc' = "aborted"
  /\ UNCHANGED <<Matcher, lens, other_views, Callee, Caller>>

\* Lines 334-335 with <= for <.
MainViewIsValid_OffByOne(index, n) == index >= 0 /\ index <= n

\* Lines 334-335: CHECK(main_view >= 0); CHECK(main_view < num_views);
MainViewIsValid(index, n) == index >= 0 /\ index < n

\* Lines 334-344: the reference view is checked, the camera loop starts.
CheckMainView ==
  /\ pc = "check"
  /\ IF MainViewIsValid(main_view, num_views)
     THEN pc' = "cameras" /\ succeeded' = succeeded \cup {Step("main_view")}
     ELSE pc' = "aborted" /\ UNCHANGED succeeded
  /\ view' = 0
  /\ UNCHANGED <<Matcher, lens, other_views, Callee, main_view, input_tracks,
                 num_views, camera, undistorted_tracks,
                 multiview_tracks_file, undistort_calls, build_calls>>

\* Lines 344-369: the camera of the next view is loaded.
LoadView ==
  /\ pc = "cameras" /\ view < num_views
  /\ IF view = main_view
     THEN camera' = ViewPose(view) /\ UNCHANGED other_views
     ELSE /\ other_views' = Append(other_views,
                                   [index |-> view, camera |-> ViewPose(view)])
          /\ UNCHANGED camera
  /\ succeeded' = succeeded \cup {CameraStep(view)}
  /\ view' = view + 1
  /\ UNCHANGED <<Matcher, lens, Callee, pc, main_view, input_tracks, num_views,
                 undistorted_tracks, multiview_tracks_file, undistort_calls,
                 build_calls>>

\* Lines 351 and 356: CHECK(ok) << "Could not load intrinsics" / extrinsics.
LoadViewFails ==
  /\ pc = "cameras" /\ view < num_views
  /\ pc' = "aborted"
  /\ UNCHANGED <<Matcher, lens, other_views, Callee, Caller>>

\* Lines 344 and 371-375: the camera loop is over; every input track is
\* calibrated and undistorted with the intrinsics of the main view.
UndistortTracks ==
  /\ pc = "cameras" /\ view >= num_views
  /\ LET result == [i \in 1..Len(input_tracks) |->
                     calibrateAndUndistortTrack(input_tracks[i],
                                                Intrinsics.distort_w)]
     IN /\ undistorted_tracks' = [i \in 1..Len(input_tracks) |-> result[i].track]
        /\ undistort_calls' = [i \in 1..Len(input_tracks) |-> result[i].calls]
  /\ pc' = "undistorted"
  /\ UNCHANGED <<Matcher, lens, other_views, Callee, main_view, input_tracks,
                 num_views, view, camera, multiview_tracks_file, build_calls,
                 succeeded>>

\* The points of a track in frame order, as findMultiviewTrack reads them
\* (lines 246-250).
TrackPoints(track) ==
  [j \in 1..Len(track) |-> CalibratedCoordinate(track[j][2])]

\* Lines 377-380: findMultiviewTracks is called.
CallFindMultiviewTracks ==
  /\ pc = "undistorted"
  /\ pose' = camera
  /\ tracks' = [i \in 1..Len(undistorted_tracks) |->
                  TrackPoints(undistorted_tracks[i])]
  /\ build_calls' = build_calls + 1
  /\ pc' = "start"
  /\ UNCHANGED <<Matcher, lens, other_views, Builder, k, Locals, History, main_view,
                 MainLocals, multiview_tracks_file, undistort_calls,
                 succeeded>>

\* Lines 382-388: the returned list is handed to saveMultiviewTrackList,
\* main returns 0. content is the list the writer was given.
SaveTracks ==
  /\ pc = "done" /\ build_calls > 0
  /\ multiview_tracks_file' = [written |-> TRUE, content |-> multiview_tracks]
  /\ pc' = "exit"
  /\ UNCHANGED <<Matcher, lens, other_views, Callee, main_view, MainLocals,
                 undistort_calls, build_calls, succeeded>>

\* Line 386: CHECK(ok) << "Could not save tracks"
SaveTracksFails ==
  /\ pc = "done" /\ build_calls > 0
  /\ pc' = "aborted"
  /\ UNCHANGED <<Matcher, lens, other_views, Callee, Caller>>

MainNext ==
  \/ ParseArguments
  \/ RejectArguments
  \/ LoadTracks
  \/ LoadTracksFails
  \/ LoadViewNames
  \/ LoadViewNamesFails
  \/ CheckMainView
  \/ LoadView
  \/ LoadViewFails
  \/ UndistortTracks
  \/ CallFindMultiviewTracks
  \/ SaveTracks
  \/ SaveTracksFails
  \/ Next

\* The find_multiview_track tool from its start.
MainSpec == MainInit /\ [][MainNext]_vars

\* ---- calibrateAndUndistortTrack on any track ------------------------------------
\* main() with one view loaded, about to undistort a track file of one track
\* with any pixels in it.
CalibrateInit ==
  /\ lens = [pole |-> "edge", infsign |-> -1, nansign |-> -1]
  /\ pose = NoCamera /\ other_views = <<>> /\ tracks = <<>>
  /\ pc = "cameras"
  /\ BuilderIdle
  /\ MatcherIdle
  /\ main_view = 0 /\ num_views = 1 /\ view = 1
  /\ camera = ViewPose(0)
  /\ input_tracks \in { <<track>> : track \in TracksOver(0, Pixels) }
  /\ undistorted_tracks = <<>>
  /\ multiview_tracks_file = NoFile
  /\ undistort_calls = <<>>
  /\ build_calls = 0
  /\ succeeded = {}

CalibrateNext == UndistortTracks

CalibrateSpec == CalibrateInit /\ [][CalibrateNext]_vars

\* ---- match_features.cpp ---------------------------------------------------------
MaxDescriptors == 2   \* descriptors in a descriptor file
MaxValue == 3         \* a descriptor is one number in 0..MaxValue

\* FLAGS_threshold = 0.8 = ThresholdNum / ThresholdDen
ThresholdNum == 4
ThresholdDen == 5

DescriptorLists == SeqsUpTo(0..MaxValue, MaxDescriptors)

\* cv::DMatch; indices count from 0.
DMatch(q, t, d) == [queryIdx |-> q, trainIdx |-> t, distance |-> d]
Distance(a, b) == Abs(a - b)

\* The matches a read outside a match list can give: the index of a
\* default-constructed cv::DMatch, or one of a descriptor.
StrayIndices == {-1, 0}
StrayMatches == { DMatch(q, t, 0) : q \in StrayIndices, t \in StrayIndices }

\* DescriptorMatcher::knnMatch(query, train, matches, 2) for one query
\* descriptor: the lists of the (up to) two nearest train descriptors,
\* nearest first, ties in any order.
KnnMatch(q, value, train) ==
  LET n == Len(train)
      d(t) == Distance(value, train[t + 1])
      hit(t) == DMatch(q, t, d(t))
  IN IF n = 0 THEN { <<>> }
     ELSE IF n = 1 THEN { <<hit(0)>> }
     ELSE { <<hit(a), hit(b)>> :
              <<a, b>> \in { p \in (0..(n - 1)) \X (0..(n - 1)) :
                               /\ p[1] # p[2]
                               /\ d(p[1]) <= d(p[2])
                               /\ \A c \in 0..(n - 1) :
                                    c \notin {p[1], p[2]} => d(c) >= d(p[2]) } }

\* knnMatch for the query descriptors from index q on: one list per query,
\* in query order.
RECURSIVE KnnMatchesFrom(_, _, _)
KnnMatchesFrom(q, query, train) ==
  IF q >= Len(query) THEN { <<>> }
  ELSE { <<list>> \o rest : list \in KnnMatch(q, query[q + 1], train),
                            rest \in KnnMatchesFrom(q + 1, query, train) }

KnnMatches(query, train) == KnnMatchesFrom(0, query, train)

\* Lines 37-46: the values isNotDistinctive can return. With fewer than two
\* matches in the list it reads outside the list.
isNotDistinctive(list) ==
  IF Len(list) >= 2
  THEN { ThresholdDen * list[1].distance >= ThresholdNum * list[2].distance }
  ELSE BOOLEAN

\* Lines 149-152 and 160-163: the results remove_copy_if can give: for each
\* list, in order, one outcome of isNotDistinctive.
RECURSIVE Distinctive(_)
Distinctive(lists) ==
  IF lists = <<>> THEN { <<>> }
  ELSE { (IF drop THEN <<>> ELSE <<Head(lists)>>) \o rest :
           drop \in isNotDistinctive(Head(lists)),
           rest \in Distinctive(Tail(lists)) }

\* Lines 48-50.
extractIndices(match) == <<match.queryIdx, match.trainIdx>>

\* Lines 52-54: front() of an empty list reads outside the list.
extractFirstMatch(list) ==
  IF Len(list) >= 1 THEN { extractIndices(list[1]) }
  ELSE { extractIndices(m) : m \in StrayMatches }

\* Lines 171-174: std::transform with extractFirstMatch.
RECURSIVE FirstMatches(_)
FirstMatches(lists) ==
  IF lists = <<>> THEN { <<>> }
  ELSE { <<first>> \o rest : first \in extractFirstMatch(Head(lists)),
                              rest \in FirstMatches(Tail(lists)) }

\* Lines 76-80: the lookup map; of two matches with one key the first stays.
RECURSIVE Lookup(_, _)
Lookup(list, map) ==
  IF list = <<>> THEN map
  ELSE Lookup(Tail(list),
              IF Head(list)[1] \in DOMAIN map THEN map
              ELSE [key \in DOMAIN map \cup {Head(list)[1]} |->
                      IF key = Head(list)[1] THEN Head(list)[2] ELSE map[key]])

EmptyLookup == [key \in {} |-> 0]

\* Lines 60-74 accepting any reverse match of the second index.
IsInconsistent_AnyReverse(lookup, forward) == forward[2] \notin DOMAIN lookup

\* Lines 60-74.
IsInconsistent(lookup, forward) ==
  IF forward[2] \notin DOMAIN lookup THEN TRUE
  ELSE IF lookup[forward[2]] # forward[1] THEN TRUE
  ELSE FALSE

\* Lines 178-180: std::remove_copy_if with IsInconsistent(reverse_matches).
RECURSIVE Consistent(_, _)
Consistent(forward, lookup) ==
  IF forward = <<>> THEN <<>>
  ELSE (IF IsInconsistent(lookup, Head(forward)) THEN <<>>
        ELSE <<Head(forward)>>) \o Consistent(Tail(forward), lookup)

\* The find_multiview_track tool is not running.
ToolIdle ==
  /\ lens = [pole |-> "edge", infsign |-> -1, nansign |-> -1]
  /\ pose = NoCamera /\ other_views = <<>> /\ tracks = <<>>
  /\ BuilderIdle
  /\ CallerIdle

Tool == <<lens, pose, other_views, tracks, Builder, k, Locals, History,
          Caller>>

MatchInit ==
  /\ ToolIdle
  /\ MatcherIdle
  /\ pc = "match_main"

\* Lines 108-121: both descriptor files are loaded.
LoadDescriptors ==
  /\ pc = "match_main"
  /\ descriptors1' \in DescriptorLists
  /\ descriptors2' \in DescriptorLists
  /\ pc' = "loaded"
  /\ UNCHANGED <<Tool, forward_match_lists, reverse_match_lists,
                 forward_matches, reverse_matches, matches, matches_file>>

\* Lines 96-99, 113-116 and 118-121: return 1.
LoadDescriptorsFails ==
  /\ pc = "match_main"
  /\ pc' = "failed"
  /\ UNCHANGED <<Tool, Matcher>>

\* Lines 123-143: the two nearest neighbours of every descriptor, in each
\* direction.
MatchBothWays ==
  /\ pc = "loaded"
  /\ forward_match_lists' \in KnnMatches(descriptors1, descriptors2)
  /\ reverse_match_lists' \in KnnMatches(descriptors2, descriptors1)
  /\ pc' = "matched"
  /\ UNCHANGED <<Tool, descriptors1, descriptors2, forward_matches,
                 reverse_matches, matches, matches_file>>

\* Lines 23-25 and 126-127: listToMatrix reads front() of an empty list; the
\* process may end there.
ListToMatrixCrashes ==
  /\ pc = "loaded"
  /\ descriptors1 = <<>> \/ descriptors2 = <<>>
  /\ pc' = "crashed"
  /\ UNCHANGED <<Tool, Matcher>>

\* Lines 145-166: the match lists that are not distinctive are removed.
EnforceDistinctive ==
  /\ pc = "matched"
  /\ forward_match_lists' \in Distinctive(forward_match_lists)
  /\ reverse_match_lists' \in Distinctive(reverse_match_lists)
  /\ pc' = "distinctive"
  /\ UNCHANGED <<Tool, descriptors1, descriptors2, forward_matches,
                 reverse_matches, matches, matches_file>>

\* Lines 168-174: the first match of every list is kept.
KeepFirstMatch ==
  /\ pc = "distinctive"
  /\ forward_matches' \in FirstMatches(forward_match_lists)
  /\ reverse_matches' \in FirstMatches(reverse_match_lists)
  /\ pc' = "first"
  /\ UNCHANGED <<Tool, descriptors1, descriptors2, forward_match_lists,
                 reverse_match_lists, matches, matches_file>>

\* Lines 176-181: the forward matches without a reverse match are removed.
EnforceConsistency ==
  /\ pc = "first"
  /\ matches' = Consistent(forward_matches,
                           Lookup(reverse_matches, EmptyLookup))
  /\ pc' = "consistent"
  /\ UNCHANGED <<Tool, descriptors1, descriptors2, forward_match_lists,
                 reverse_match_lists, forward_matches, reverse_matches,
                 matches_file>>

\* Lines 183-190: the matches are written, main returns 0.
SaveMatches ==
  /\ pc = "consistent"
  /\ matches_file' = [written |-> TRUE, content |-> matches]
  /\ pc' = "saved"
  /\ UNCHANGED <<Tool, descriptors1, descriptors2, forward_match_lists,
                 reverse_match_lists, forward_matches, reverse_matches,
                 matches>>

\* Lines 185-188: return 1.
SaveMatchesFails ==
  /\ pc = "consistent"
  /\ pc' = "failed"
  /\ UNCHANGED <<Tool, Matcher>>

MatchNext ==
  \/ LoadDescriptors
  \/ LoadDescriptorsFails
  \/ MatchBothWays
  \/ ListToMatrixCrashes
  \/ EnforceDistinctive
  \/ KeepFirstMatch
  \/ EnforceConsistency
  \/ SaveMatches
  \/ SaveMatchesFails

\* The match_features tool from its start.
MatchSpec == MatchInit /\ [][MatchNext]_vars

\* ---- sanity ---------------------------------------------------------------------
TypeOK ==
  /\ pc \in {"start", "tracks", "points", "others", "doubling", "quantize",
             "logged", "done", "fatal", "terminated", "hung", "main",
             "load_tracks", "load_views", "check", "cameras", "undistorted",
             "aborted", "exit", "match_main", "loaded", "failed", "matched",
             "crashed", "distinctive", "first", "consistent", "saved"}
  /\ Len(multiview_tracks) = Len(built_from)

\* ---- claims ---------------------------------------------------------------------
InSearch == pc \in {"doubling", "quantize", "logged"}
Last(s) == s[Len(s)]

\* C1: for an other camera with a3 > 0 and b3 > 0 the view is skipped: no
\* anchor is computed, no bisection is run, no lambda is appended, nothing is
\* recorded for the view, and the loop goes on to the next camera.
C1_BehindIsSkipped ==
  [][(pc = "others" /\ k <= Len(other_views) /\ A'[2] > 0 /\ B'[2] > 0)
       => /\ pc' = "others" /\ k' = k + 1
          /\ x' = NoValue /\ lambda' = NoValue /\ lambda_min' = NoValue
          /\ lambdas' = <<>>
          /\ computed' = computed
          /\ multiview_track' = multiview_track]_vars

\* A view was skipped and another camera is still to be searched.
C1_Witness ==
  /\ pc = "others" /\ 1 < k /\ k <= Len(other_views)
  /\ A[2] > 0 /\ B[2] > 0
  /\ lambdas = <<>> /\ x = NoValue

\* C2: in every search that is not skipped, lambda_min is 0 when a3 < 0 and
\* -a3/b3 otherwise; when b3 < 0 the anchor is the distorted vanishing point
\* of B and the doubling pre-search runs; when b3 >= 0 there is no doubling,
\* the initial upper bracket is -a3/b3 and the anchor is the point at
\* infinity of A + lambda B at that lambda.
C2_BranchTaken ==
  InSearch =>
    LET a3 == A[2]
        b3 == B[2]
        crossing == IF b3 = 0
                    THEN (IF a3 = 0 THEN NaN
                          ELSE IF a3 < 0 THEN PosInf ELSE NegInf)
                    ELSE Fin(Quot(-a3 * Scale, b3))
    IN /\ ~(a3 > 0 /\ b3 > 0)
       /\ a3 < 0 => lambda_min = Fin(0)
       /\ a3 >= 0 => lambda_min = crossing
       /\ b3 < 0 => /\ pc = "doubling" \/ found
                    /\ lambdas = <<>> => x = VanishingPoint(B)
                    /\ (pc = "doubling" /\ ~found) => IsFin(lambda)
       /\ b3 >= 0 => /\ pc # "doubling" /\ ~found
                     /\ lambdas = <<>> =>
                          /\ lambda = crossing
                          /\ x = InfinityAnchor(A, B, crossing)

\* The b3 >= 0 branch was taken for a ray that starts in front of the camera.
C2_Witness ==
  /\ pc = "quantize" /\ lambdas = <<>>
  /\ A[2] < 0 /\ B[2] > 0
  /\ lambda_min = Fin(0) /\ IsFin(lambda) /\ lambda[2] > 0 /\ IsFin(x)

\* The depth a3 + lambda b3 is negative for no lambda >= 0.
Invisible(a3, b3) == a3 >= 0 /\ b3 >= 0

\* C3: a ray that is invisible in a view gives the empty sequence for that
\* view and no fault.
C3_InvisibleIsEmpty ==
  /\ pc \in {"fatal", "terminated", "hung"} => ~Invisible(A[2], B[2])
  /\ (InSearch /\ Invisible(A[2], B[2])) => lambdas = <<>>

\* C4: every lambda the quantization loop appends is strictly below the
\* upper bracket it was searched under (the previous lambda, or the initial
\* upper bracket) and not below lambda_min.
C4_FarToNear ==
  [][(pc = "quantize" /\ lambdas' # lambdas /\ pc' = "quantize")
       => /\ lambdas' = Append(lambdas, lambda')
          /\ FLt(lambda', lambda)
          /\ FGe(lambda', lambda_min)
          /\ lambdas # <<>> => lambda = Last(lambdas)]_vars

\* C5 (as stated): the candidate sequence is increasing along lambda.
C5_Increasing ==
  \A i \in 1..(Len(lambdas) - 1) : FLt(lambdas[i], lambdas[i + 1])

\* C5 (amended): the candidate sequence is decreasing along lambda: each
\* element corresponds to a smaller lambda than the element before it.
C5_Decreasing ==
  \A i \in 1..(Len(lambdas) - 1) : FLt(lambdas[i + 1], lambdas[i])

\* A completed sequence of at least two candidates.
C5_Witness ==
  /\ pc = "logged" /\ Len(lambdas) >= 2
  /\ FLt(lambdas[2], lambdas[1])

\* The arguments findMultiviewTrack passes to findExtentOfRay (line 250).
findExtentOfRayArguments ==
  [projection |-> tracks[ti][pi],
   camera |-> pose,
   others |-> [i \in 1..Len(other_views) |->
                 extractCameraFromOtherView(other_views[i])]]

\* The anchor candidate i was searched from: the initial anchor, or the
\* pixel of the candidate before it.
InitialAnchor ==
  IF HasVanishingPoint(B[2]) THEN VanishingPoint(B)
  ELSE InfinityAnchor(A, B, FDiv(-A[2], B[2]))
AnchorOf(i) == IF i = 1 THEN InitialAnchor ELSE PixelAt(lambdas[i - 1], A, B)

\* The pixel at l is at distance delta from y up to the bisection tolerance:
\* it is not farther than delta, and one step of the lambda grid toward
\* lambda_min the ray is not nearer than delta.
AtDelta(y, l) ==
  LET at == errorInDistanceFromPoint(y, l, A, B)
      below == errorInDistanceFromPoint(y, Fin(l[2] - 1), A, B)
  IN /\ IsFin(l) /\ IsFin(at) /\ at[2] <= 0
     /\ at[2] = 0 \/ (IsFin(below) /\ below[2] >= 0)

Spaced ==
  pc = "logged" => \A i \in 1..Len(lambdas) : AtDelta(AnchorOf(i), lambdas[i])

C7_LimitCycleIsFatal ==
  [][/\ (NeedsBisection /\ Bisection.kind = "ok"
           /\ FEq(Bisection.second, lambda))
        => (pc' = "fatal" /\ lambdas' = lambdas /\ x' = x)
     /\ lambdas' # lambdas /\ lambdas' # <<>>
        => (~FEq(Last(lambdas'), lambda)
              /\ (lambdas # <<>> => ~FEq(Last(lambdas'), Last(lambdas))))
     /\ pc = "fatal" => pc' = "fatal"]_vars

\* The fault was raised after candidates had been appended.
C7_Witness ==
  /\ pc = "fatal" /\ Len(lambdas) >= 1
  /\ FEq(lambda, Last(lambdas))

\* The slot of a view in a MultiviewTrack; views are numbered from 0.
Slot(track, index) == track[index + 1]

\* C8: after findMultiviewTracks has returned, every candidate sequence a
\* search computed for a (track, point, other view) is stored in the
\* MultiviewTrack of that track, in the slot of that view.
C8_SequencesStored ==
  pc = "done" =>
    \A i \in 1..Len(computed) :
      LET c == computed[i]
      IN c.lambdas # <<>> =>
           \E j \in DOMAIN Slot(multiview_tracks[c.track], c.view) :
             Slot(multiview_tracks[c.track], c.view)[j] = c.lambdas

\* C9: every MultiviewTrack has one slot per view, other views + 1, also for
\* views whose candidate sequence is empty; a track without points gives
\* all-empty slots and no fault.
C9_OneSlotPerView ==
  /\ \A i \in 1..Len(multiview_tracks) :
       /\ Len(multiview_tracks[i]) = Len(other_views) + 1
       /\ \A o \in 1..Len(other_views) :
            other_views[o].index + 1 \in DOMAIN multiview_tracks[i]
       /\ tracks[i] = <<>> =>
            \A v \in DOMAIN multiview_tracks[i] : multiview_tracks[i][v] = <<>>
  /\ pc \in {"points", "others", "doubling", "quantize", "logged"} =>
       Len(multiview_track) = Len(other_views) + 1
  /\ pc \in {"fatal", "terminated", "hung"} => tracks[ti] # <<>>

\* The build returned for a track without points and for a track one of
\* whose views was skipped.
C9_Witness ==
  /\ pc = "done" /\ Len(other_views) = 2
  /\ \E i \in 1..Len(tracks) : tracks[i] = <<>>
  /\ \E i \in 1..Len(tracks) : tracks[i] # <<>>
  /\ Len(computed) < Len(other_views) * Len(tracks[1] \o tracks[Len(tracks)])
  /\ Len(multiview_tracks[1]) = 3

\* C10: findMultiviewTracks returns one MultiviewTrack per input track, in
\* input order: entry i was built from track i.
C10_OnePerTrackInOrder ==
  /\ \A i \in 1..Len(multiview_tracks) : built_from[i] = i
  /\ Len(multiview_tracks) = Len(built_from)
  /\ pc = "tracks" => Len(multiview_tracks) = ti - 1
  /\ pc = "done" => Len(multiview_tracks) = Len(tracks)

\* The build returned for two tracks.
C10_Witness ==
  /\ pc = "done" /\ Len(tracks) = 2
  /\ built_from = <<1, 2>>
  /\ tracks[1] # tracks[2]

\* ---- claims about calibrateAndUndistortTrack and main ----------------------------
Frames(track) == { track[j][1] : j \in DOMAIN track }
PointAt(track, frame) ==
  LET j == CHOOSE i \in DOMAIN track : track[i][1] = frame
  IN track[j][2]
CalibratedAt(track, frame) ==
  calibrateIndexedPoint(<<frame, PointAt(track, frame)>>)[2]
PassingFrames(track) ==
  { f \in Frames(track) :
      isUndistortable(CalibratedAt(track, f), Intrinsics.distort_w) }
StrictlyIncreasing(track) ==
  \A j \in 1..(Len(track) - 1) : track[j][1] < track[j + 1][1]

\* C11: the track calibrateAndUndistortTrack returns has exactly the frame
\* indices of the input whose calibrated point passes isUndistortable, each
\* once and holding the undistortion of its own calibrated point; undistort
\* is called only on calibrated points that passed.
C11_FilteredThenUndistorted ==
  pc = "undistorted" =>
    /\ Len(undistorted_tracks) = Len(input_tracks)
    /\ \A i \in 1..Len(input_tracks) :
         LET in == input_tracks[i]
             out == undistorted_tracks[i]
         IN /\ Frames(out) = PassingFrames(in)
            /\ Len(out) = Cardinality(PassingFrames(in))
            /\ StrictlyIncreasing(out)
            /\ \A f \in Frames(out) :
                 PointAt(out, f) =
                   undistort(CalibratedAt(in, f), Intrinsics.distort_w)
            /\ undistort_calls[i] =
                 { CalibratedAt(in, f) : f \in PassingFrames(in) }

\* A track whose first frame was dropped and whose second frame was kept
\* under its own index.
C11_Witness ==
  /\ pc = "undistorted" /\ Len(input_tracks) = 1
  /\ Frames(input_tracks[1]) = {0, 1}
  /\ Frames(undistorted_tracks[1]) = {1}
  /\ PointAt(undistorted_tracks[1], 1)[2] # 0

\* The distorted radius of a calibrated point exceeds the domain bound.
ExceedsDomain(q) == Abs(q[2]) > DomainBound * q[3]
DroppedFrames(i) == Frames(input_tracks[i]) \ Frames(undistorted_tracks[i])

\* C12 (as stated): isUndistortable returns true for the points whose
\* distorted radius exceeds the domain bound, and those are exactly the
\* points calibrateAndUndistortTrack drops and never passes to undistort.
C12_TrueMeansDropped ==
  pc = "undistorted" =>
    \A i \in 1..Len(input_tracks) :
      \A f \in Frames(input_tracks[i]) :
        LET q == CalibratedAt(input_tracks[i], f)
        IN /\ ExceedsDomain(q) => isUndistortable(q, Intrinsics.distort_w)
           /\ isUndistortable(q, Intrinsics.distort_w)
                <=> (f \in DroppedFrames(i) /\ q \notin undistort_calls[i])

\* C12 (amended): isUndistortable returns false for the points whose
\* distorted radius exceeds the domain bound, and the points for which it
\* returns false are exactly the points calibrateAndUndistortTrack drops
\* and never passes to undistort.
C12_FalseMeansDropped ==
  pc = "undistorted" =>
    \A i \in 1..Len(input_tracks) :
      \A f \in Frames(input_tracks[i]) :
        LET q == CalibratedAt(input_tracks[i], f)
        IN /\ ExceedsDomain(q) => ~isUndistortable(q, Intrinsics.distort_w)
           /\ ~isUndistortable(q, Intrinsics.distort_w)
                <=> (f \in DroppedFrames(i) /\ q \notin undistort_calls[i])

\* A point beyond the bound was dropped and a point inside it was undistorted.
C12_Witness ==
  /\ pc = "undistorted" /\ Len(input_tracks) = 1
  /\ \E f \in DroppedFrames(1) : ExceedsDomain(CalibratedAt(input_tracks[1], f))
  /\ \E f \in Frames(undistorted_tracks[1]) :
       CalibratedAt(input_tracks[1], f) \in undistort_calls[1]

\* Positions of main() before findMultiviewTracks has been called.
BeforeBuild ==
  pc \in {"main", "load_tracks", "load_views", "check", "cameras",
          "undistorted"}

\* Everything main() loads and checks has succeeded.
AllSucceeded ==
  /\ Step("tracks") \in succeeded
  /\ Step("view names") \in succeeded
  /\ Step("main_view") \in succeeded
  /\ main_view >= 0 /\ main_view < num_views
  /\ \A v \in 0..(num_views - 1) : CameraStep(v) \in succeeded

\* C13: findMultiviewTracks is called at most once, and only when the track
\* list, the view names, 0 <= main_view < num_views and the cameras of every
\* view have all succeeded; a failure before the call ends the process with
\* no call and no output file; and the output file is written only with the
\* list findMultiviewTracks returned, as returned.
C13_BuildOnceThenSave ==
  [][/\ build_calls' # build_calls
        => (build_calls = 0 /\ build_calls' = 1 /\ AllSucceeded)
     /\ (BeforeBuild /\ pc' = "aborted")
        => (build_calls' = 0 /\ multiview_tracks_file' = NoFile)
     /\ pc \in {"aborted", "exit"} => pc' = pc
     /\ BeforeBuild => (build_calls = 0 /\ multiview_tracks_file = NoFile)
     /\ multiview_tracks_file' # multiview_tracks_file
        => /\ pc = "done" /\ pc' = "exit" /\ build_calls = 1
           /\ Len(multiview_tracks) = Len(input_tracks)
           /\ multiview_tracks' = multiview_tracks
           /\ multiview_tracks_file' =
                [written |-> TRUE, content |-> multiview_tracks]]_vars

\* The tool ran to its end with two other views and a track, and saved.
C13_Witness ==
  /\ pc = "exit" /\ build_calls = 1
  /\ num_views = 3 /\ Len(other_views) = 2
  /\ multiview_tracks_file.written
  /\ Len(multiview_tracks_file.content) = 1
  /\ Len(computed) >= 1

\* ---- claims about the brackets of findExtentOfRay -----------------------------
\* The doubling pre-search has just ended: lambda is the upper bracket the
\* first bisection will be given.
DoublingExited == pc = "quantize" /\ found /\ lambdas = <<>>

\* C14: on the b3 < 0 branch, when the doubling pre-search exits, the upper
\* bracket is not below lambda_min and the residual at the upper bracket
\* (distance to the vanishing-point anchor minus delta) is negative.
C14_DoublingBracketValid ==
  (DoublingExited /\ B[2] < 0) =>
    /\ FGe(lambda, lambda_min)
    /\ FLt(errorInDistanceFromPoint(VanishingPoint(B), lambda, A, B), Fin(0))

\* C15: the search for one other camera ends: the doubling pre-search is
\* never in a state it cannot leave, and the quantization loop ends normally
\* or with the limit-cycle fault, never by bisect failing or not returning.
C15_SearchEnds ==
  /\ pc \notin {"hung", "terminated"}
  /\ (pc = "doubling" /\ ~found) => ENABLED DoublingStep

\* The quantization loop is entered: no iteration has run yet.
LoopEntered == pc = "quantize" /\ lambdas = <<>>

\* C16: the quantization loop is entered with lambda_min and the upper
\* bracket lambda both finite and with 0 <= lambda_min <= lambda.
C16_BracketFiniteAndOrdered ==
  LoopEntered =>
    /\ IsFin(lambda_min) /\ IsFin(lambda)
    /\ FGe(lambda_min, Fin(0))
    /\ FGe(lambda, lambda_min)

\* The depth a3 + l * b3 of the ray point at l is zero.
DepthIsZero(l) == FEq(FAxpy(A[2], l, B[2]), Fin(0))

\* C17: the residual is never evaluated at a lambda of depth zero: not by
\* the doubling pre-search at lambda, not by the loop's test at lambda_min,
\* and not by bisect at its end points lambda_min and lambda.
C17_DepthNeverZero ==
  /\ (pc = "doubling" /\ ~found) => ~DepthIsZero(lambda)
  /\ pc = "quantize" => ~DepthIsZero(lambda_min)
  /\ NeedsBisection => ~DepthIsZero(lambda)

\* ---- claims about match_features ---------------------------------------------
Elements(list) == { list[n] : n \in DOMAIN list }

\* The forward matches (i, j) whose reverse (j, i) is a reverse match, in the
\* order of the forward matches.
RECURSIVE Mutual(_, _)
Mutual(forward, reverse) ==
  IF forward = <<>> THEN <<>>
  ELSE (IF <<Head(forward)[2], Head(forward)[1]>> \in Elements(reverse)
        THEN <<Head(forward)>> ELSE <<>>) \o Mutual(Tail(forward), reverse)

\* C18: the matches written are exactly the distinctive forward matches
\* (i, j) for which (j, i) is a distinctive reverse match, and no index of
\* either descriptor list is in more than one of them.
C18_MutualAndOneToOne ==
  /\ pc \in {"first", "consistent", "saved"} =>
       /\ \A list \in Elements(forward_match_lists)
                      \cup Elements(reverse_match_lists) :
            Len(list) >= 2 =>
              ThresholdDen * list[1].distance < ThresholdNum * list[2].distance
       /\ forward_matches \in FirstMatches(forward_match_lists)
       /\ reverse_matches \in FirstMatches(reverse_match_lists)
  /\ pc \in {"consistent", "saved"} =>
       /\ matches = Mutual(forward_matches, reverse_matches)
       /\ \A m, n \in DOMAIN matches :
            m # n => (matches[m][1] # matches[n][1]
                        /\ matches[m][2] # matches[n][2])
  /\ pc = "saved" => matches_file = [written |-> TRUE, content |-> matches]
  /\ pc # "saved" => matches_file = NoFile

\* Two descriptors of the first list had the same distinctive nearest
\* neighbour; one match was written.
C18_Witness ==
  /\ pc = "saved"
  /\ Len(forward_matches) = 2
  /\ forward_matches[1][2] = forward_matches[2][2]
  /\ reverse_matches # <<>>
  /\ Len(matches_file.content) = 1

====
